---- MODULE Spec2Model ----
(***************************************************************************)
(* State-machine model of the realtime-notify server (server.js): the SSE  *)
(* client registry `clients`, broadcastToClients, the GET /events          *)
(* connection lifecycle, the inbound adapters (POST /notify, POST          *)
(* /pubsub/push, the Pub/Sub pull listener) and the demo-mode timers.      *)
(*                                                                         *)
(* Node runs every handler to completion on one thread, so each handler    *)
(* (and each timer callback) is one atomic action.  A write to a sink      *)
(* (res.write) is an environment call: it either returns or throws, and    *)
(* the model chooses between the two for every write.                      *)
(***************************************************************************)
EXTENDS Integers, Sequences, FiniteSets, TLC

\* ---------------------------------------------------------------- bounds
\* connection objects (one GET /events request each)
MaxConns == 2
\* calls of broadcastToClients in one behaviour
MaxBroadcasts == 2
\* res.write calls that throw in one behaviour
MaxWriteFailures == 2

\* clientId values (req.query.clientId, or the generated `client_${Date.now()}`);
\* two requests may carry the same one
ClientIds == {"a", "b"}

\* ------------------------------------------------------- values of JS data
Absent == "absent"
NoConn == 0

\* title || '...' and data.type || 'info' take the default for every falsy value
\* faulty variant: a test for undefined only
FalsyUndefinedOnly(v) == v = Absent

Falsy(v) == v \in {Absent, ""}

\* '通知', the placeholder title
DefaultTitle == "notice"
DefaultType == "info"

\* request bodies / decoded upstream payloads
\* (every field present; no field present; an empty message)
Payloads ==
    { [title |-> "T", message |-> "M", type |-> "warning"],
      [title |-> Absent, message |-> Absent, type |-> Absent],
      [title |-> "T", message |-> "", type |-> Absent] }

VARIABLES
    DEMO_MODE,      \* process.env.DEMO_MODE === 'true'
    pc,             \* "starting" before start() has run initPubSub, then "running"
    topic,          \* TRUE when `topic` is set
    subscription,   \* TRUE when `subscription` is set (and its listener is on)
    clients,        \* the Map clientId -> res, as its entry list in insertion order
    connState,      \* per connection object: "unopened", "active", "closed", "failed"
    connId,         \* per connection object: its clientId
    sinkLog,        \* per connection object: the frames res.write accepted, in order
    timers,         \* per connection object: the pending setTimeout callbacks
    nBroadcasts,    \* calls of broadcastToClients so far
    nFailures,      \* res.write calls that threw so far
    last,           \* what the handler that ran last did and answered
    registry,       \* history: the id -> connection map the register/unregister calls describe
    lateWrites,     \* history: per connection, frames written to its sink after its close event
    writeFailed,    \* history: per connection, a write to its sink has thrown
    clash,          \* history: per connection, another connection with its id opened or closed while it was open
    ackInfo,        \* history: per connection, what the registry held when its ack was written
    seqLog,         \* history: per frame of sinkLog, the number of the broadcast that wrote it (0: none)
    superseded      \* history: per connection, the connection whose entry its clients.set replaced

vars == <<DEMO_MODE, pc, topic, subscription, clients, connState, connId, sinkLog,
          timers, nBroadcasts, nFailures, last, registry, lateWrites, writeFailed,
          clash, ackInfo, seqLog, superseded>>

Conns == 1..MaxConns

\* ------------------------------------------------------------------ Map
\* An ECMAScript Map keeps a list of entries; delete empties an entry in place
\* and forEach walks the list by position, skipping emptied entries.
Empty == [key |-> "empty", value |-> NoConn]

MapHas(data, key) == \E i \in DOMAIN data : data[i].key = key

MapIndex(data, key) == CHOOSE i \in DOMAIN data : data[i].key = key

MapGet(data, key) == IF MapHas(data, key) THEN data[MapIndex(data, key)].value ELSE NoConn

\* faulty variant: set that keeps the value of a key already held
MapSetKeepsFirst(data, key, value) ==
    IF MapHas(data, key) THEN data
    ELSE Append(data, [key |-> key, value |-> value])

\* faulty variant: set that never replaces: a second entry for a key already held
MapSetAppend(data, key, value) == Append(data, [key |-> key, value |-> value])

MapSet(data, key, value) ==
    IF MapHas(data, key)
    THEN [data EXCEPT ![MapIndex(data, key)].value = value]
    ELSE Append(data, [key |-> key, value |-> value])

\* faulty variant: delete that shifts the later entries down under a positional walk
MapDeleteSplice(data, key) == SelectSeq(data, LAMBDA e : e.key # key)

\* faulty variant: delete that leaves the Map's only entry in place
MapDeleteUnlessOnly(data, key) ==
    IF Cardinality({i \in DOMAIN data : data[i] # [key |-> "empty", value |-> 0]}) = 1
    THEN data
    ELSE [i \in DOMAIN data |->
             IF data[i].key = key THEN [key |-> "empty", value |-> 0] ELSE data[i]]

\* faulty variant: delete that removes nothing
MapDeleteKeeps(data, key) == data

\* faulty variant: clients.clear() in place of clients.delete(clientId)
MapDeleteClear(data, key) == [i \in DOMAIN data |-> Empty]

MapDelete(data, key) ==
    [i \in DOMAIN data |-> IF data[i].key = key THEN Empty ELSE data[i]]

\* emptied entries are unobservable once no iteration is running
MapCompact(data) == SelectSeq(data, LAMBDA e : e # Empty)

MapSize(data) == Cardinality({i \in DOMAIN data : data[i] # Empty})

MapKeys(data) == [i \in DOMAIN MapCompact(data) |-> MapCompact(data)[i].key]

MapValues(data) == {data[i].value : i \in {j \in DOMAIN data : data[j] # Empty}}


\* --------------------------------------------------------------- frames
\* One frame is `data: ${JSON.stringify(x)}\n\n`; the model keeps x.  The
\* timestamp field is left out: no handler reads it back.
AckFrame(clientId) ==
    [type |-> "connected", clientId |-> clientId,
     pubsubEnabled |-> subscription, demoMode |-> DEMO_MODE]

Notification(id, title, message, notificationType, source) ==
    [type |-> "notification",
     data |-> [title |-> title, message |-> message, id |-> id,
               notificationType |-> notificationType, source |-> source]]

NoFrame == [type |-> "none"]

\* faulty variant: the payload's fields copied without the `||` defaults
UpstreamNotificationNoDefaults(id, data, source) ==
    Notification(id, data.title, data.message, data.type, source)

\* the envelope the two upstream adapters build from a parsed payload
UpstreamNotification(id, data, source) ==
    Notification(id,
                 IF Falsy(data.title) THEN DefaultTitle ELSE data.title,
                 data.message,
                 IF Falsy(data.type) THEN DefaultType ELSE data.type,
                 source)

\* the envelope POST /notify builds: `type = 'info'` defaults an absent type
\* only, `title || ...` defaults every falsy title
DirectNotification(id, body) ==
    Notification(id,
                 IF Falsy(body.title) THEN DefaultTitle ELSE body.title,
                 body.message,
                 IF body.type = Absent THEN DefaultType ELSE body.type,
                 "direct")

\* ------------------------------------------------------ broadcastToClients
\* clients.forEach: the walk over the entry list.  `throws` is the set of
\* sinks whose write throws during this call.
\* faulty variant: sentCount++ placed before the write
writeClientCountsAll(data, entry, throws, acc) ==
    IF entry.value \in throws
    THEN [data |-> MapDelete(data, entry.key),
          acc |-> [acc EXCEPT !.attempted = Append(@, entry.value),
                              !.failed = Append(@, entry.value),
                              !.sentCount = @ + 1]]
    ELSE [data |-> data,
          acc |-> [acc EXCEPT !.attempted = Append(@, entry.value),
                              !.written = Append(@, entry.value),
                              !.sentCount = @ + 1]]

\* faulty variant: the write without its try/catch: the error leaves the
\* callback and ends the walk
writeClientNoCatch(data, entry, throws, acc) ==
    IF entry.value \in throws
    THEN [data |-> data,
          acc |-> [acc EXCEPT !.attempted = Append(@, entry.value),
                              !.failed = Append(@, entry.value),
                              !.escaped = TRUE]]
    ELSE [data |-> data,
          acc |-> [acc EXCEPT !.attempted = Append(@, entry.value),
                              !.written = Append(@, entry.value),
                              !.sentCount = @ + 1]]

\* faulty variant: a catch block that writes once more before it deletes
writeClientRetries(data, entry, throws, acc) ==
    IF entry.value \in throws
    THEN [data |-> MapDelete(data, entry.key),
          acc |-> [acc EXCEPT !.attempted = Append(Append(@, entry.value), entry.value),
                              !.failed = Append(@, entry.value)]]
    ELSE [data |-> data,
          acc |-> [acc EXCEPT !.attempted = Append(@, entry.value),
                              !.written = Append(@, entry.value),
                              !.sentCount = @ + 1]]

\* faulty variant: clients.delete(clientId) placed after the try/catch
writeClientDeletesAlways(data, entry, throws, acc) ==
    IF entry.value \in throws
    THEN [data |-> MapDelete(data, entry.key),
          acc |-> [acc EXCEPT !.attempted = Append(@, entry.value),
                              !.failed = Append(@, entry.value)]]
    ELSE [data |-> MapDelete(data, entry.key),
          acc |-> [acc EXCEPT !.attempted = Append(@, entry.value),
                              !.written = Append(@, entry.value),
                              !.sentCount = @ + 1]]

\* the callback: try { client.write(...); sentCount++ } catch { clients.delete(clientId) }
writeClient(data, entry, throws, acc) ==
    IF entry.value \in throws
    THEN [data |-> MapDelete(data, entry.key),
          acc |-> [acc EXCEPT !.attempted = Append(@, entry.value),
                              !.failed = Append(@, entry.value)]]
    ELSE [data |-> data,
          acc |-> [acc EXCEPT !.attempted = Append(@, entry.value),
                              !.written = Append(@, entry.value),
                              !.sentCount = @ + 1]]

RECURSIVE forEach(_, _, _, _)
forEach(data, i, throws, acc) ==
    IF i > Len(data) \/ acc.escaped
    THEN [data |-> data, sentCount |-> acc.sentCount,
          attempted |-> acc.attempted, written |-> acc.written,
          failed |-> acc.failed, escaped |-> acc.escaped]
    ELSE IF data[i] = Empty THEN forEach(data, i + 1, throws, acc)
    ELSE LET r == writeClient(data, data[i], throws, acc)
         IN  forEach(r.data, i + 1, throws, r.acc)

broadcastToClients(data, throws) ==
    LET r == forEach(data, 1, throws,
                     [sentCount |-> 0, attempted |-> <<>>, written |-> <<>>,
                      failed |-> <<>>, escaped |-> FALSE])
    IN  [clients |-> MapCompact(r.data), sentCount |-> r.sentCount,
         attempted |-> r.attempted, written |-> r.written, failed |-> r.failed,
         escaped |-> r.escaped]

\* faulty variant: a write that lands before the frame written last
RECURSIVE DeliverBeforeLast(_, _, _)
DeliverBeforeLast(log, written, frame) ==
    IF written = <<>> THEN log
    ELSE DeliverBeforeLast(
             [log EXCEPT ![Head(written)] =
                 SubSeq(@, 1, Len(@) - 1) \o <<frame>> \o SubSeq(@, Len(@), Len(@))],
             Tail(written), frame)

\* the frames of one broadcast, appended to the logs of the sinks written
RECURSIVE Deliver(_, _, _)
Deliver(log, written, frame) ==
    IF written = <<>> THEN log
    ELSE Deliver([log EXCEPT ![Head(written)] = Append(@, frame)],
                 Tail(written), frame)

Range(seq) == {seq[i] : i \in DOMAIN seq}

\* ------------------------------------------------------------ demo script
DEMO_NOTIFICATIONS ==
    << [title |-> "Tanaka", message |-> "shiryou", type |-> "info"],
       [title |-> "Sato", message |-> "meeting", type |-> "info"],
       [title |-> "Yamada", message |-> "lunch", type |-> "success"],
       [title |-> "Suzuki", message |-> "kakunin", type |-> "success"] >>

WelcomeDelay == 1000
DemoFirstDelay == 3000
DemoInterval == 5000

\* faulty variant: the delay without its 3000 ms offset
DemoDelayFromZero(index) == index * DemoInterval

DemoDelay(index) == DemoFirstDelay + (index * DemoInterval)

\* the setTimeout calls of one GET /events in demo mode, in scheduling order
WelcomeTimer == [kind |-> "welcome", index |-> 0, delay |-> WelcomeDelay, seq |-> 0]

sendDemoNotificationsToClient ==
    IF ~DEMO_MODE THEN {}
    ELSE {[kind |-> "script", index |-> i - 1, delay |-> DemoDelay(i - 1), seq |-> i] :
             i \in DOMAIN DEMO_NOTIFICATIONS}

\* Node runs the timers of one scheduling instant by expiry time, and equal
\* expiry times in scheduling order
NextTimer(ts) ==
    CHOOSE t \in ts : \A u \in ts :
        t.delay < u.delay \/ (t.delay = u.delay /\ t.seq <= u.seq)

WelcomeNotification ==
    Notification(<<"demo_welcome">>, "welcome", "demo environment", "info", "demo")

DemoNotification(index) ==
    LET sample == DEMO_NOTIFICATIONS[index + 1]
    IN  Notification(<<"demo", index>>, sample.title, sample.message, sample.type, "demo")

\* ------------------------------------------------------------------ state
NoPayload == [title |-> Absent, message |-> Absent, type |-> Absent]

\* what a handler did and answered; Quiet is the record of a handler that
\* answers nothing (a connection event, a timer)
Quiet ==
    [op |-> "none", status |-> 0, via |-> "none", events |-> <<>>,
     notification |-> NoFrame, before |-> {}, throws |-> {},
     attempted |-> <<>>, written |-> <<>>, failed |-> <<>>,
     sentCount |-> 0, list |-> <<>>, count |-> 0, input |-> NoPayload,
     inputId |-> <<>>, parsed |-> FALSE]

Answer(op, status) == [Quiet EXCEPT !.op = op, !.status = status]

Init ==
    /\ DEMO_MODE \in BOOLEAN
    /\ pc = "starting"
    /\ topic = FALSE
    /\ subscription = FALSE
    /\ clients = <<>>
    /\ connState = [c \in Conns |-> "unopened"]
    /\ connId = [c \in Conns |-> Absent]
    /\ sinkLog = [c \in Conns |-> <<>>]
    /\ timers = [c \in Conns |-> {}]
    /\ nBroadcasts = 0
    /\ nFailures = 0
    /\ last = Quiet
    /\ registry = [k \in ClientIds |-> NoConn]
    /\ lateWrites = [c \in Conns |-> 0]
    /\ writeFailed = [c \in Conns |-> FALSE]
    /\ clash = [c \in Conns |-> FALSE]
    /\ ackInfo = [c \in Conns |-> [written |-> FALSE, registered |-> FALSE]]
    /\ seqLog = [c \in Conns |-> <<>>]
    /\ superseded = [c \in Conns |-> NoConn]

\* history: register(id, c) and unregister(id) on the id -> connection map
Register(reg, id, c) == [reg EXCEPT ![id] = c]

Unregister(reg, id) == [reg EXCEPT ![id] = NoConn]

RegisteredIds(reg) == {k \in DOMAIN reg : reg[k] # NoConn}

RECURSIVE UnregisterAll(_, _)
UnregisterAll(reg, ids) ==
    IF ids = <<>> THEN reg ELSE UnregisterAll(Unregister(reg, Head(ids)), Tail(ids))

\* ---------------------------------------------------------------- start()
\* initPubSub: skipped in demo mode; otherwise the topic and the subscription
\* are fetched or created in turn, and a failure of either step leaves what
\* was set before it.
initPubSub(outcome) ==
    IF DEMO_MODE THEN [topic |-> FALSE, subscription |-> FALSE]
    ELSE [topic |-> outcome \in {"topic", "both"}, subscription |-> outcome = "both"]

Start ==
    /\ pc = "starting"
    /\ \E outcome \in {"none", "topic", "both"} :
          /\ topic' = initPubSub(outcome).topic
          /\ subscription' = initPubSub(outcome).subscription
    /\ pc' = "running"
    /\ last' = Quiet
    /\ UNCHANGED <<DEMO_MODE, clients, connState, connId, sinkLog, seqLog, timers, nBroadcasts,
                   nFailures, registry, lateWrites, writeFailed, clash, ackInfo, superseded>>

\* ------------------------------------------------------------ GET /events
\* The handler writes the ack to `res` and then stores `res` in the Map.
\* registered: whether the Map held this connection when the ack was written.
\* faulty variant: clients.set placed before the write of the ack
openConnectionRegisterFirst(data, clientId, c) ==
    LET after == MapSet(data, clientId, c)
        atAck == after
    IN  [clients |-> after, registered |-> (MapGet(atAck, clientId) = c)]

openConnection(data, clientId, c) ==
    LET atAck == data
        after == MapSet(data, clientId, c)
    IN  [clients |-> after, registered |-> (MapGet(atAck, clientId) = c)]

\* Ids are opaque to the server: only their equality is read.  A request
\* therefore carries an id used before or the first id not used yet, and an
\* envelope id (the upstream message id, Date.now()) is the id of an earlier
\* broadcast or a new one.
UsedIds == {connId[c] : c \in {d \in Conns : connState[d] # "unopened"}}

FreshId == IF "a" \notin UsedIds THEN {"a"} ELSE ClientIds \ UsedIds

RequestIds == UsedIds \cup (IF FreshId = {} THEN {} ELSE {CHOOSE k \in FreshId : TRUE})

EnvelopeIds == {<<"id", 101 + k>> : k \in 0..nBroadcasts}

\* connection objects are taken in order: c is the next one not yet used
NextConn(c) == /\ connState[c] = "unopened"
               /\ \A d \in Conns : d < c => connState[d] # "unopened"

\* the other connections open under the same id
Sharing(c, clientId) ==
    {d \in Conns \ {c} : connState[d] = "active" /\ connId[d] = clientId}

GetEventsAckThrows(c, clientId) ==
    /\ nFailures < MaxWriteFailures
    /\ nFailures' = nFailures + 1
    /\ connState' = [connState EXCEPT ![c] = "failed"]
    /\ connId' = [connId EXCEPT ![c] = clientId]
    /\ writeFailed' = [writeFailed EXCEPT ![c] = TRUE]
    /\ last' = Answer("events", 500)
    /\ UNCHANGED <<clients, sinkLog, seqLog, timers, registry, clash, ackInfo, superseded>>

GetEventsOpen(c, clientId) ==
    LET r == openConnection(clients, clientId, c)
    IN  /\ sinkLog' = [sinkLog EXCEPT ![c] = Append(@, AckFrame(clientId))]
        /\ seqLog' = [seqLog EXCEPT ![c] = Append(@, 0)]
        /\ superseded' = [superseded EXCEPT ![c] = MapGet(clients, clientId)]
        /\ ackInfo' = [ackInfo EXCEPT ![c] = [written |-> TRUE, registered |-> r.registered]]
        /\ clients' = r.clients
        /\ registry' = Register(registry, clientId, c)
        /\ timers' = [timers EXCEPT ![c] =
                         IF DEMO_MODE THEN {WelcomeTimer} \cup sendDemoNotificationsToClient
                         ELSE {}]
        /\ connState' = [connState EXCEPT ![c] = "active"]
        /\ connId' = [connId EXCEPT ![c] = clientId]
        /\ clash' = [d \in Conns |-> clash[d] \/ d \in Sharing(c, clientId)]
        /\ last' = Quiet
        /\ UNCHANGED <<nFailures, writeFailed>>

GetEvents ==
    /\ pc = "running"
    /\ \E c \in Conns, clientId \in RequestIds :
          /\ NextConn(c)
          /\ \/ GetEventsOpen(c, clientId)
             \/ GetEventsAckThrows(c, clientId)
    /\ UNCHANGED <<DEMO_MODE, pc, topic, subscription, nBroadcasts, lateWrites>>

\* req.on('close'): clients.delete(clientId)
ReqClose ==
    /\ \E c \in Conns :
          /\ connState[c] = "active"
          /\ clients' = MapCompact(MapDelete(clients, connId[c]))
          /\ registry' = Unregister(registry, connId[c])
          /\ connState' = [connState EXCEPT ![c] = "closed"]
          /\ clash' = [d \in Conns |-> clash[d] \/ d \in Sharing(c, connId[c])]
    /\ last' = Quiet
    /\ UNCHANGED <<DEMO_MODE, pc, topic, subscription, connId, sinkLog, seqLog, timers,
                   nBroadcasts, nFailures, lateWrites, writeFailed, ackInfo, superseded>>

\* ------------------------------------------------------------ demo timers
\* A timer callback builds its envelope and calls res.write inside
\* try { } catch (e) {}; nothing cancels it when the connection closes.
\* faulty variant: a callback that writes its envelope to every registered sink
TimerFireToAll(c, frame, throws) ==
    /\ timers' = [timers EXCEPT ![c] = @ \ {NextTimer(timers[c])}]
    /\ IF throws
       THEN /\ nFailures < MaxWriteFailures
            /\ nFailures' = nFailures + 1
            /\ writeFailed' = [writeFailed EXCEPT ![c] = TRUE]
            /\ UNCHANGED <<sinkLog, seqLog, lateWrites>>
       ELSE /\ sinkLog' = [d \in Conns |->
                              IF d = c \/ d \in MapValues(clients)
                              THEN Append(sinkLog[d], frame) ELSE sinkLog[d]]
            /\ seqLog' = [d \in Conns |->
                             IF d = c \/ d \in MapValues(clients)
                             THEN Append(seqLog[d], 0) ELSE seqLog[d]]
            /\ lateWrites' = [lateWrites EXCEPT ![c] =
                                 IF connState[c] = "closed" THEN @ + 1 ELSE @]
            /\ UNCHANGED <<nFailures, writeFailed>>
    /\ last' = Quiet
    /\ UNCHANGED <<DEMO_MODE, pc, topic, subscription, clients, connState, connId,
                   nBroadcasts, registry, clash, ackInfo, superseded>>

TimerFire(c, frame, throws) ==
    /\ timers' = [timers EXCEPT ![c] = @ \ {NextTimer(timers[c])}]
    /\ IF throws
       THEN /\ nFailures < MaxWriteFailures
            /\ nFailures' = nFailures + 1
            /\ writeFailed' = [writeFailed EXCEPT ![c] = TRUE]
            /\ UNCHANGED <<sinkLog, seqLog, lateWrites>>
       ELSE /\ sinkLog' = [sinkLog EXCEPT ![c] = Append(@, frame)]
            /\ seqLog' = [seqLog EXCEPT ![c] = Append(@, 0)]
            /\ lateWrites' = [lateWrites EXCEPT ![c] =
                                 IF connState[c] = "closed" THEN @ + 1 ELSE @]
            /\ UNCHANGED <<nFailures, writeFailed>>
    /\ last' = Quiet
    /\ UNCHANGED <<DEMO_MODE, pc, topic, subscription, clients, connState, connId,
                   nBroadcasts, registry, clash, ackInfo, superseded>>

WelcomeTimerFires ==
    \E c \in Conns, throws \in BOOLEAN :
        /\ timers[c] # {}
        /\ NextTimer(timers[c]).kind = "welcome"
        /\ TimerFire(c, WelcomeNotification, throws)

DemoTimerFires ==
    \E c \in Conns, throws \in BOOLEAN :
        /\ timers[c] # {}
        /\ NextTimer(timers[c]).kind = "script"
        /\ TimerFire(c, DemoNotification(NextTimer(timers[c]).index), throws)

\* ---------------------------------------------------------------- broadcast
\* What the handler goes on to do after its call of broadcastToClients: rec
\* when the call returns; when an error leaves the call, the pull listener's
\* catch block acks, the catch block of POST /pubsub/push answers 500, and the
\* async handler of POST /notify, which has no try around its broadcast,
\* rejects without answering.
afterBroadcast(rec, escaped) ==
    IF ~escaped THEN rec
    ELSE IF rec.op = "pull" THEN [rec EXCEPT !.via = "catch"]
    ELSE IF rec.op = "push" THEN [rec EXCEPT !.status = 500, !.via = "catch"]
    ELSE [rec EXCEPT !.status = 0, !.via = "rejected"]

\* One call of broadcastToClients(notification) in which the writes to the
\* sinks in `throws` throw; rec is the handler's record, completed here.
Broadcast(notification, throws, rec) ==
    LET r == broadcastToClients(clients, throws)
    IN  /\ nBroadcasts < MaxBroadcasts
        /\ throws \subseteq MapValues(clients)
        /\ nFailures + Cardinality(throws) <= MaxWriteFailures
        /\ clients' = r.clients
        /\ sinkLog' = Deliver(sinkLog, r.written, notification)
        /\ seqLog' = Deliver(seqLog, r.written, nBroadcasts + 1)
        /\ writeFailed' = [c \in Conns |-> writeFailed[c] \/ c \in Range(r.failed)]
        /\ registry' = UnregisterAll(registry, [i \in DOMAIN r.failed |-> connId[r.failed[i]]])
        /\ nFailures' = nFailures + Len(r.failed)
        /\ nBroadcasts' = nBroadcasts + 1
        /\ last' = [afterBroadcast(rec, r.escaped)
                       EXCEPT !.notification = notification,
                               !.before = MapValues(clients),
                               !.throws = throws,
                               !.attempted = r.attempted,
                               !.written = r.written,
                               !.failed = r.failed,
                               !.sentCount = r.sentCount,
                               !.count = MapSize(r.clients)]
        /\ UNCHANGED <<DEMO_MODE, pc, topic, subscription, connState, connId, timers,
                       lateWrites, clash, ackInfo, superseded>>

\* a handler that answers without touching anything else
Reply(rec) ==
    /\ last' = rec
    /\ UNCHANGED <<DEMO_MODE, pc, topic, subscription, clients, connState, connId,
                   sinkLog, seqLog, timers, nBroadcasts, nFailures, registry, lateWrites,
                   writeFailed, clash, ackInfo, superseded>>

\* ------------------------------------------------------------ POST /notify
\* faulty variant: the handler without its demo-mode rejection
notifyRouteUngated(body) ==
    IF Falsy(body.message) THEN "invalid"
    ELSE IF topic THEN "publish"
    ELSE "broadcast"

\* faulty variant: a handler that broadcasts whether or not `topic` is set
notifyRouteAlwaysLocal(body) ==
    IF DEMO_MODE THEN "forbidden"
    ELSE IF Falsy(body.message) THEN "invalid"
    ELSE "broadcast"

\* the branch the handler takes
notifyRoute(body) ==
    IF DEMO_MODE THEN "forbidden"
    ELSE IF Falsy(body.message) THEN "invalid"
    ELSE IF topic THEN "publish"
    ELSE "broadcast"

PostNotify ==
    /\ pc = "running"
    /\ \E body \in Payloads :
          IF notifyRoute(body) = "forbidden"
          THEN Reply([Answer("notify", 403) EXCEPT !.input = body])
          ELSE IF notifyRoute(body) = "invalid"
               THEN Reply([Answer("notify", 400) EXCEPT !.input = body])
          ELSE IF notifyRoute(body) = "publish"
               THEN \E published \in BOOLEAN :
                       Reply([Answer("notify", IF published THEN 200 ELSE 500)
                                EXCEPT !.via = IF published THEN "pubsub" ELSE "none",
                                       !.events = <<"publish">>,
                                       !.input = body])
               ELSE \E id \in EnvelopeIds, throws \in SUBSET Conns :
                       Broadcast(DirectNotification(id, body), throws,
                                 [Answer("notify", 200)
                                    EXCEPT !.via = "direct", !.events = <<"broadcast">>,
                                           !.input = body])

\* -------------------------------------------------------- POST /pubsub/push
\* hasMessage: req.body.message is present; parses: Buffer.from, JSON.parse
\* and the reads of the parsed object's fields all return without throwing
\* faulty variant: the handler without the try/catch around decode and parse
pushRouteIgnoresParse(hasMessage, parses) ==
    IF DEMO_MODE THEN "forbidden"
    ELSE IF ~hasMessage THEN "invalid"
    ELSE "broadcast"

pushRoute(hasMessage, parses) ==
    IF DEMO_MODE THEN "forbidden"
    ELSE IF ~hasMessage THEN "invalid"
    ELSE IF ~parses THEN "error"
    ELSE "broadcast"

PostPubsubPush ==
    /\ pc = "running"
    /\ \E hasMessage \in BOOLEAN, parses \in BOOLEAN :
          IF pushRoute(hasMessage, parses) = "forbidden" THEN Reply(Answer("push", 403))
          ELSE IF pushRoute(hasMessage, parses) = "invalid" THEN Reply(Answer("push", 400))
          ELSE IF pushRoute(hasMessage, parses) = "error" THEN Reply(Answer("push", 500))
          ELSE \E id \in EnvelopeIds, data \in Payloads, throws \in SUBSET Conns :
                  Broadcast(UpstreamNotification(id, data, "pubsub-push"), throws,
                            [Answer("push", 200)
                               EXCEPT !.events = <<"broadcast">>, !.input = data,
                                      !.inputId = id,
                                      !.parsed = hasMessage /\ parses])

\* ------------------------------------------------------ handlePubSubMessage
\* the listener initPubSub puts on the subscription
\* what the handler calls, in order: the try block broadcasts and then acks,
\* the catch block acks
\* faulty variant: a catch block that nacks, leaving the message for redelivery
pullEventsNackOnError(parses) ==
    IF parses THEN <<"broadcast", "ack">> ELSE <<"nack">>

pullEvents(parses) ==
    IF parses THEN <<"broadcast", "ack">> ELSE <<"ack">>

handlePubSubMessage ==
    /\ subscription
    /\ \E parses \in BOOLEAN :
          IF "broadcast" \notin Range(pullEvents(parses))
          THEN Reply([Answer("pull", 0) EXCEPT !.events = pullEvents(parses),
                                               !.parsed = parses])
          ELSE \E id \in EnvelopeIds, data \in Payloads, throws \in SUBSET Conns :
                  Broadcast(UpstreamNotification(id, data, "pubsub"), throws,
                            [Answer("pull", 0)
                               EXCEPT !.events = pullEvents(parses), !.input = data,
                                      !.inputId = id, !.parsed = parses])

\* ------------------------------------------------- GET /clients, GET /health
GetClients ==
    /\ pc = "running"
    /\ Reply([Answer("clients", 200)
                EXCEPT !.list = MapKeys(clients), !.count = Len(MapKeys(clients))])

GetHealth ==
    /\ pc = "running"
    /\ Reply([Answer("health", 200) EXCEPT !.count = MapSize(clients)])

\* GET /api/config answers the mode flag
GetApiConfig ==
    /\ pc = "running"
    /\ Reply([Answer("config", 200) EXCEPT !.via = IF DEMO_MODE THEN "demo" ELSE "live"])

Next ==
    \/ Start
    \/ GetEvents
    \/ ReqClose
    \/ WelcomeTimerFires
    \/ DemoTimerFires
    \/ PostNotify
    \/ PostPubsubPush
    \/ handlePubSubMessage
    \/ GetClients
    \/ GetHealth
    \/ GetApiConfig

Spec == Init /\ [][Next]_vars

\* ------------------------------------- the pull adapter's envelope, alone
\* The construction of the envelope in handlePubSubMessage as a function of
\* the message id and the parsed payload, over every combination of an
\* absent, an empty and a non-empty title, message and type.
MaxMessageIds == 4

MessageIds == {<<"id", 100 + k>> : k \in 1..MaxMessageIds}

ParsedPayloads ==
    [title : {Absent, "", "T"}, message : {Absent, "", "M"},
     type : {Absent, "", "warning"}]

InitEnvelope ==
    /\ DEMO_MODE = FALSE
    /\ pc = "running"
    /\ topic = TRUE
    /\ subscription = TRUE
    /\ clients = <<>>
    /\ connState = [c \in Conns |-> "unopened"]
    /\ connId = [c \in Conns |-> Absent]
    /\ sinkLog = [c \in Conns |-> <<>>]
    /\ timers = [c \in Conns |-> {}]
    /\ nBroadcasts = 0
    /\ nFailures = 0
    /\ last = Quiet
    /\ registry = [k \in ClientIds |-> NoConn]
    /\ lateWrites = [c \in Conns |-> 0]
    /\ writeFailed = [c \in Conns |-> FALSE]
    /\ clash = [c \in Conns |-> FALSE]
    /\ ackInfo = [c \in Conns |-> [written |-> FALSE, registered |-> FALSE]]
    /\ seqLog = [c \in Conns |-> <<>>]
    /\ superseded = [c \in Conns |-> NoConn]

\* lines 74-87 of the handler: the envelope built from message.id and data
BuildPullEnvelope ==
    \E messageId \in MessageIds, data \in ParsedPayloads :
        LET notification == UpstreamNotification(messageId, data, "pubsub")
        IN  Reply([Answer("pull", 0)
                     EXCEPT !.notification = notification,
                            !.input = data, !.inputId = messageId, !.parsed = TRUE])

NextEnvelope == BuildPullEnvelope

SpecEnvelope == InitEnvelope /\ [][NextEnvelope]_vars

\* =================================================================== claims
BroadcastStep == nBroadcasts' # nBroadcasts

IsBroadcast(rec) == "broadcast" \in Range(rec.events)

\* the sinks the register/unregister history says are registered
RegisteredConns == {registry[k] : k \in RegisteredIds(registry)}

\* C1: fault isolation.  In every broadcast, every sink that was registered
\* when the broadcast started and whose write does not throw gets exactly one
\* frame, the envelope's, appended to what it had received; a throwing sink
\* makes the walk skip no other sink.
C1_FaultIsolation ==
    [][BroadcastStep =>
          \A c \in MapValues(clients) \ last'.throws :
              sinkLog'[c] = Append(sinkLog[c], last'.notification)]_vars

\* a broadcast in which a sink whose write threw came before a sink written
C1_Witness ==
    /\ IsBroadcast(last)
    /\ \E i, j \in DOMAIN last.attempted :
          /\ i < j
          /\ last.attempted[i] \in last.throws
          /\ last.attempted[j] \notin last.throws
          /\ last.attempted[j] \in Range(last.written)

\* C2: self-healing and delivery count.  After a broadcast the count of
\* deliveries (the logged sentCount, and the sentCount POST /notify answers)
\* is the number of sinks whose write succeeded, the id of every sink whose
\* write threw is absent from the registry, and every other id that was
\* registered is still there with its sink.
C2_DeliveryCount ==
    IsBroadcast(last) =>
        /\ last.sentCount = Cardinality(last.before \ last.throws)
        /\ last.op = "notify" => last.count = last.sentCount
        /\ \A c \in last.throws : ~MapHas(clients, connId[c])
        /\ \A c \in last.before \ last.throws : MapGet(clients, connId[c]) = c

\* N = 2 registered connections, exactly one of which fails
C2_Witness ==
    /\ IsBroadcast(last)
    /\ Cardinality(last.before) = 2
    /\ Cardinality(last.throws) = 1
    /\ last.sentCount = 1

\* C3: delivery set equals registry membership.  A broadcast attempts one
\* write on exactly the connections registered at that moment, appends one
\* frame to each sink written and none to any other, in particular none to a
\* connection whose close event has run; GET /clients answers exactly the
\* registered ids, with count their number.
C3_DeliverySet ==
    [][/\ BroadcastStep =>
            /\ Range(last'.attempted) = RegisteredConns
            /\ Len(last'.attempted) = Cardinality(RegisteredConns)
            /\ \A c \in Conns :
                  sinkLog'[c] = IF c \in Range(last'.written)
                                THEN Append(sinkLog[c], last'.notification)
                                ELSE sinkLog[c]
            /\ \A c \in Conns : connState[c] = "closed" => sinkLog'[c] = sinkLog[c]
       /\ last'.op = "clients" =>
            /\ Range(last'.list) = RegisteredIds(registry')
            /\ Len(last'.list) = Cardinality(RegisteredIds(registry'))
            /\ last'.count = Cardinality(RegisteredIds(registry'))]_vars

\* the scenario: A and B registered, E reaches both, A unregisters, F reaches
\* only B, /clients answers {clients: ["b"], count: 1}
C3_Witness ==
    /\ last.op = "clients" /\ last.list = <<"b">> /\ last.count = 1
    /\ connId[1] = "a" /\ connState[1] = "closed"
    /\ connId[2] = "b" /\ connState[2] = "active"
    /\ Len(sinkLog[1]) = 2 /\ Len(sinkLog[2]) = 3
    /\ sinkLog[1][2] = sinkLog[2][2]
    /\ sinkLog[2][3].data.id # sinkLog[2][2].data.id

\* a connection is ACTIVE: accepted, its close event not yet fired, no write
\* to its sink failed
Active(c) == connState[c] = "active" /\ ~writeFailed[c]

\* C4 as stated: an ACTIVE connection receives every envelope broadcast,
\* whatever ids the other connections use.
C4_AsStated ==
    [][BroadcastStep =>
          \A c \in Conns :
              (Active(c) /\ c \notin last'.throws) =>
                  sinkLog'[c] = Append(sinkLog[c], last'.notification)]_vars

\* C4 amended: an ACTIVE connection receives every envelope broadcast,
\* provided no other connection with the same clientId has opened or closed
\* since it opened.
C4_ActiveReceivesAll ==
    [][BroadcastStep =>
          \A c \in Conns :
              (Active(c) /\ ~clash[c] /\ c \notin last'.throws) =>
                  sinkLog'[c] = Append(sinkLog[c], last'.notification)]_vars

\* a connection that received two broadcasts while another connection, of
\* another id, opened and closed
C4_Witness ==
    \E c, d \in Conns :
        /\ c # d
        /\ Active(c) /\ ~clash[c] /\ Len(sinkLog[c]) = 3
        /\ connState[d] = "closed" /\ connId[d] # connId[c]
        /\ Len(sinkLog[d]) = 2

\* the ack of connection c, with the feature flags
AckOf(c) ==
    [type |-> "connected", clientId |-> connId[c],
     pubsubEnabled |-> subscription, demoMode |-> DEMO_MODE]

\* the ack is the first frame of c's sink and the only ack in it
AckFirst(c) ==
    sinkLog[c] # <<>> =>
        /\ sinkLog[c][1] = AckOf(c)
        /\ \A i \in 2..Len(sinkLog[c]) : sinkLog[c][i].type # "connected"

OpenStep(c) == connState[c] = "unopened" /\ connState'[c] = "active"

\* what one GET /events does: the ack alone in the new sink, no frame to any
\* other sink, the connection registered when the handler returns
OpensWithAck(c) ==
    /\ sinkLog'[c] = <<AckOf(c)'>>
    /\ \A d \in Conns \ {c} : sinkLog'[d] = sinkLog[d]
    /\ MapGet(clients', connId'[c]) = c

\* C5 as stated: the ack is every connection's first frame, written to its
\* sink only and before any broadcast or demo frame; the connection is
\* registered and then the ack is emitted.
C5_AsStated ==
    [][/\ \A c \in Conns : AckFirst(c)'
       /\ \A c \in Conns : OpenStep(c) =>
             /\ OpensWithAck(c)
             /\ ackInfo'[c] = [written |-> TRUE, registered |-> TRUE]]_vars

\* C5 amended: the ack is every connection's first frame, written to its
\* sink only and before any broadcast or demo frame; the ack is written
\* first and the connection is registered after it, in the same handler run.
C5_AckFirst ==
    [][/\ \A c \in Conns : AckFirst(c)'
       /\ \A c \in Conns : OpenStep(c) =>
             /\ OpensWithAck(c)
             /\ ackInfo'[c] = [written |-> TRUE, registered |-> FALSE]]_vars

\* a connection opened between two broadcasts: its sink holds the ack and
\* then the second envelope, the older sink the ack and both envelopes
C5_Witness ==
    /\ Len(sinkLog[1]) = 3 /\ Len(sinkLog[2]) = 2
    /\ sinkLog[2][1].type = "connected"
    /\ sinkLog[2][2] = sinkLog[1][3]
    /\ sinkLog[1][2].type = "notification"

\* C6: demo cancellation.  Once a connection's close event has fired, no
\* demo envelope is written to its sink.
C6_NoWriteAfterClose == \A c \in Conns : lateWrites[c] = 0

\* the demo-origin frames of a sink, in the order written
IsDemoFrame(f) == f.type = "notification" /\ f.data.source = "demo"

DemoFrames(c) == SelectSeq(sinkLog[c], IsDemoFrame)

\* the playback of c is over, c stayed open through it and no write threw
PlaybackDone(c) ==
    /\ DEMO_MODE
    /\ connState[c] = "active"
    /\ timers[c] = {}
    /\ ~writeFailed[c]

IsScriptEntry(f, i) ==
    /\ f.data.title = DEMO_NOTIFICATIONS[i].title
    /\ f.data.message = DEMO_NOTIFICATIONS[i].message
    /\ f.data.notificationType = DEMO_NOTIFICATIONS[i].type

DistinctIds(frames) ==
    \A i, j \in DOMAIN frames : i # j => frames[i].data.id # frames[j].data.id

NoDelivery ==
    /\ clients' = clients
    /\ sinkLog' = sinkLog
    /\ registry' = registry
    /\ nBroadcasts' = nBroadcasts

C9_EmptyRejected ==
    [][(~DEMO_MODE /\ last'.op = "notify" /\ last'.input.message \in {Absent, ""}) =>
          /\ last'.status = 400
          /\ last'.events = <<>>
          /\ NoDelivery]_vars

\* an empty message refused with the upstream topic configured and a
\* connection registered
C9_Witness ==
    /\ ~DEMO_MODE /\ topic
    /\ last.op = "notify" /\ last.status = 400 /\ last.input.message = ""
    /\ MapSize(clients) >= 1

\* C10: the registry size, as clients.size and as /health and /clients report
\* it, is the number of distinct ids registered by the register/unregister
\* calls so far, and is never negative.
C10_RegistrySize ==
    /\ MapSize(clients) = Cardinality(RegisteredIds(registry))
    /\ MapSize(clients) >= 0
    /\ last.op \in {"health", "clients"} =>
          last.count = Cardinality(RegisteredIds(registry))

\* /health after one id was registered twice (a replacement) and
\* unregistered twice (the second time while absent)
C10_Witness ==
    /\ last.op = "health"
    /\ \E c, d \in Conns :
          /\ c # d /\ connId[c] = connId[d]
          /\ connState[c] = "closed" /\ connState[d] = "closed"
          /\ clash[c] /\ clash[d]

\* one call of broadcastToClients was made in this step
OneBroadcast == nBroadcasts' = nBroadcasts + 1

\* C11: the pull adapter acks every message before it returns.  A payload
\* that parses is broadcast once and acked after the broadcast; a payload that
\* does not parse is acked without any broadcast or write; no message is ever
\* nacked.
C11_PullAcks ==
    [][last'.op = "pull" =>
          /\ last'.events # <<>>
          /\ last'.events[Len(last'.events)] = "ack"
          /\ "nack" \notin Range(last'.events)
          /\ last'.parsed => (last'.events = <<"broadcast", "ack">> /\ OneBroadcast)
          /\ ~last'.parsed => (last'.events = <<"ack">> /\ NoDelivery)]_vars

\* a malformed message acked and dropped while a connection is registered,
\* after a well-formed one reached that connection
C11_Witness ==
    /\ last.op = "pull" /\ ~last.parsed /\ last.events = <<"ack">>
    /\ MapSize(clients) >= 1
    /\ \E c \in Conns :
          /\ Len(sinkLog[c]) = 2
          /\ sinkLog[c][2].type = "notification"
          /\ sinkLog[c][2].data.source = "pubsub"

\* C12: outside restricted mode POST /pubsub/push answers 200 exactly when
\* the message is present and decodes, and then after one broadcast of the
\* decoded envelope with source 'pubsub-push', whether or not a sink's write
\* throws; a missing message (400) or a decode failure (500) broadcasts
\* nothing and writes to no sink.
C12_PushStatus ==
    [][(~DEMO_MODE /\ last'.op = "push") =>
          /\ last'.status \in {200, 400, 500}
          /\ (last'.status = 200) <=> last'.parsed
          /\ last'.parsed =>
                /\ last'.events = <<"broadcast">>
                /\ OneBroadcast
                /\ last'.notification.type = "notification"
                /\ last'.notification.data.source = "pubsub-push"
                /\ last'.notification.data.id = last'.inputId
                /\ last'.notification.data.message = last'.input.message
          /\ ~last'.parsed =>
                /\ last'.events = <<>>
                /\ NoDelivery]_vars

\* a push answered 200 although the write to one of two sinks threw
C12_Witness ==
    /\ last.op = "push" /\ last.status = 200
    /\ Cardinality(last.before) = 2
    /\ Cardinality(last.throws) = 1
    /\ Len(last.written) = 1

\* C13: outside restricted mode a POST /notify with a non-empty message does
\* exactly one of two things.  With `topic` set it publishes upstream once and
\* broadcasts nothing locally, answering 200 via 'pubsub' or, when the publish
\* fails, 500; with `topic` unset it makes one local broadcast with source
\* 'direct' and publishes nothing.
C13_NotifyRouting ==
    [][(~DEMO_MODE /\ last'.op = "notify" /\ last'.input.message \notin {Absent, ""}) =>
          IF topic
          THEN /\ last'.events = <<"publish">>
               /\ NoDelivery
               /\ last'.status \in {200, 500}
               /\ last'.status = 200 => last'.via = "pubsub"
          ELSE /\ last'.events = <<"broadcast">>
               /\ OneBroadcast
               /\ last'.notification.data.source = "direct"
               /\ last'.notification.data.message = last'.input.message
               /\ last'.status = 200
               /\ last'.via = "direct"]_vars

\* an upstream publish that failed while a connection was registered: 500,
\* and the connection holds its ack only
C13_Witness ==
    /\ ~DEMO_MODE /\ topic
    /\ last.op = "notify" /\ last.status = 500 /\ last.events = <<"publish">>
    /\ MapSize(clients) = 1
    /\ \A c \in Conns : Len(sinkLog[c]) <= 1

\* the frame is no notification or its message is a non-empty string
HasBody(f) == f.type = "notification" => f.data.message \notin {Absent, ""}

\* C14: every notification envelope handed to broadcastToClients or written
\* to a sink, by any adapter and for any inbound payload, has a non-empty
\* message.
C14_NonEmptyBody ==
    /\ HasBody(last.notification)
    /\ \A c \in Conns : \A i \in DOMAIN sinkLog[c] : HasBody(sinkLog[c][i])

\* what the envelope takes from the message id and the payload's message
PullEnvelopeCopies ==
    /\ last.notification.type = "notification"
    /\ last.notification.data.id = last.inputId
    /\ last.notification.data.message = last.input.message
    /\ last.notification.data.source = "pubsub"

\* C15 as stated: the pull adapter's envelope has the payload's title, or
\* the placeholder when the title is absent, and the payload's type, or 'info'
\* when the type is absent.
C15_AsStated ==
    (last.op = "pull" /\ last.parsed) =>
        /\ PullEnvelopeCopies
        /\ last.notification.data.title =
              IF last.input.title = Absent THEN DefaultTitle ELSE last.input.title
        /\ last.notification.data.notificationType =
              IF last.input.type = Absent THEN DefaultType ELSE last.input.type

\* C15 amended: the pull adapter's envelope is a notification with the
\* upstream message id, the payload's message and source 'pubsub'; its title
\* is the payload's title, or the placeholder when the title is absent or
\* empty; its notificationType is the payload's type, or 'info' when the type
\* is absent or empty.
C15_PullEnvelope ==
    (last.op = "pull" /\ last.parsed) =>
        /\ PullEnvelopeCopies
        /\ last.notification.data.title =
              IF last.input.title \in {Absent, ""} THEN DefaultTitle ELSE last.input.title
        /\ last.notification.data.notificationType =
              IF last.input.type \in {Absent, ""} THEN DefaultType ELSE last.input.type

\* an envelope built from a payload with an empty title and no type
C15_Witness ==
    /\ last.op = "pull" /\ last.parsed
    /\ last.input = [title |-> "", message |-> "M", type |-> Absent]
    /\ last.notification.data.title = DefaultTitle
    /\ last.notification.data.notificationType = DefaultType

\* the ids the Map holds
Keys(data) == Range(MapKeys(data))

CloseStep(c) == connState[c] = "active" /\ connState'[c] = "closed"

\* C16 as stated: the ids registered change only when a connection opens or
\* closes; a broadcast leaves them as they were.
C16_AsStated ==
    [][/\ Keys(clients') # Keys(clients) => \E c \in Conns : OpenStep(c) \/ CloseStep(c)
       /\ BroadcastStep => Keys(clients') = Keys(clients)]_vars

\* C16 amended: the ids registered change only when a connection opens (its
\* id is added), when a connection closes (its id is removed) and in a
\* broadcast in which a write throws (the ids of the throwing sinks are
\* removed).  A broadcast in which no write throws, GET /clients, GET /health,
\* GET /api/config and every adapter request that does not broadcast leave
\* the Map as it was.
C16_RegistryWriters ==
    [][/\ Keys(clients') # Keys(clients) =>
             \/ \E c \in Conns : OpenStep(c) \/ CloseStep(c)
             \/ BroadcastStep /\ last'.throws # {}
       /\ \A c \in Conns : OpenStep(c) => Keys(clients') = Keys(clients) \cup {connId'[c]}
       /\ \A c \in Conns : CloseStep(c) => Keys(clients') = Keys(clients) \ {connId[c]}
       /\ BroadcastStep =>
             Keys(clients') = Keys(clients) \ {connId[c] : c \in last'.throws}
       /\ (BroadcastStep /\ last'.throws = {}) => clients' = clients
       /\ last'.op \in {"clients", "health", "config"} => clients' = clients
       /\ (last'.op \in {"notify", "push", "pull"} /\ ~BroadcastStep) =>
             clients' = clients]_vars

\* a pull message broadcast to two registered sinks, the first of which
\* throws: its id is gone, the other id is still registered
C16_Witness ==
    /\ last.op = "pull"
    /\ Len(last.attempted) = 2
    /\ last.failed = <<last.attempted[1]>>
    /\ MapKeys(clients) = <<connId[last.attempted[2]]>>

\* the sinks of a point-in-time copy of the Map's entries, in entry order
SnapshotSinks(data) == [i \in DOMAIN MapCompact(data) |-> MapCompact(data)[i].value]

Occurrences(seq, x) == Cardinality({i \in DOMAIN seq : seq[i] = x})

\* C17: one broadcast attempts one write on each sink registered when it
\* starts and on no other, in the order a copy of the entries taken at that
\* moment would be walked: a removal inside the walk makes it skip or revisit
\* nothing, and a sink whose write threw is not written again.
C17_SnapshotWalk ==
    [][BroadcastStep =>
          LET snap == SnapshotSinks(clients)
              thr  == last'.throws
          IN  /\ last'.attempted = snap
              /\ \A c \in Conns :
                    Occurrences(last'.attempted, c) =
                        IF c \in MapValues(clients) THEN 1 ELSE 0
              /\ last'.written = SelectSeq(snap, LAMBDA c : c \notin thr)
              /\ last'.failed = SelectSeq(snap, LAMBDA c : c \in thr)
              /\ \A c \in thr : sinkLog'[c] = sinkLog[c]]_vars

\* a broadcast in which the writes to both registered sinks throw: both are
\* attempted once, both entries are removed inside the walk
C17_Witness ==
    /\ IsBroadcast(last)
    /\ Len(last.attempted) = 2
    /\ last.failed = last.attempted
    /\ last.written = <<>>
    /\ MapSize(clients) = 0

\* the positions of c's sink that hold frames written by broadcasts
BroadcastFrames(c) == {i \in DOMAIN seqLog[c] : seqLog[c][i] # 0}

\* every sink holds the frames of the broadcasts it received in the order the
\* broadcasts were made, and two sinks hold the frames of the same two
\* broadcasts in the same order
ConsistentOrder ==
    /\ \A c \in Conns :
          /\ DOMAIN seqLog[c] = DOMAIN sinkLog[c]
          /\ \A i, j \in BroadcastFrames(c) : i < j => seqLog[c][i] < seqLog[c][j]
          /\ \A i \in BroadcastFrames(c) :
                /\ sinkLog[c][i].type = "notification"
                /\ sinkLog[c][i].data.source \in {"pubsub", "pubsub-push", "direct"}
    /\ \A c, d \in Conns :
          \A i, j \in BroadcastFrames(c) : \A k, l \in BroadcastFrames(d) :
              /\ seqLog[c][i] = seqLog[d][k] => sinkLog[c][i] = sinkLog[d][k]
              /\ (seqLog[c][i] = seqLog[d][k] /\ seqLog[c][j] = seqLog[d][l] /\ i < j)
                    => k < l

\* C18: an adapter broadcasts each envelope inside the handler run that
\* produced it, so envelopes are broadcast in the order they were produced:
\* the frame of a broadcast is written after every frame of every earlier
\* broadcast, on every sink written.  A connection that receives two
\* envelopes receives them in broadcast order, and no two sinks hold the
\* frames of two broadcasts in opposite orders.
C18_Ordering ==
    [][/\ ConsistentOrder'
       /\ BroadcastStep =>
             \A c \in Range(last'.written) :
                 /\ sinkLog'[c] = Append(sinkLog[c], last'.notification)
                 /\ seqLog'[c] = Append(seqLog[c], nBroadcasts')
                 /\ \A d \in Conns : \A i \in DOMAIN seqLog[d] :
                       seqLog[d][i] < nBroadcasts']_vars

\* two sinks that both hold the frames of two direct broadcasts with
\* different ids, in the same order
C18_Witness ==
    /\ \A c \in {1, 2} :
          /\ Len(sinkLog[c]) = 3
          /\ seqLog[c] = <<0, 1, 2>>
          /\ sinkLog[c][2].data.source = "direct"
          /\ sinkLog[c][3].data.source = "direct"
          /\ sinkLog[c][2].data.id # sinkLog[c][3].data.id
    /\ sinkLog[1][2] = sinkLog[2][2]

\* connection c opens under an id the Map holds
ReplaceStep(c) == OpenStep(c) /\ MapHas(clients, connId'[c])

Supersedes(c) == superseded[c] # NoConn

IsSuperseded(d) == \E c \in Conns : superseded[c] = d

\* what a GET /events under a registered id does: the id keeps one entry,
\* now with the new sink; the connection that held it stays open and is
\* written nothing
ReplacesEntry(c) ==
    LET d == MapGet(clients, connId'[c])
    IN  /\ last'.status # 500
        /\ MapSize(clients') = MapSize(clients)
        /\ Occurrences(MapKeys(clients'), connId'[c]) = 1
        /\ MapGet(clients', connId'[c]) = c
        /\ superseded'[c] = d
        /\ connState'[d] = "active" /\ connState[d] = "active"
        /\ sinkLog'[d] = sinkLog[d]

\* C19 as stated: a connection that opens under a registered id replaces its
\* entry without an error and without closing the connection replaced; every
\* later broadcast is written to the later sink and never to the sink
\* replaced.
C19_AsStated ==
    [][/\ \A c \in Conns : ReplaceStep(c) => ReplacesEntry(c)
       /\ BroadcastStep =>
             \A c \in Conns :
                 /\ IsSuperseded(c) => sinkLog'[c] = sinkLog[c]
                 /\ (Supersedes(c) /\ Active(c) /\ c \notin last'.throws) =>
                       sinkLog'[c] = Append(sinkLog[c], last'.notification)]_vars

\* C19 amended: a connection that opens under a registered id replaces its
\* entry without an error and without closing the connection replaced; later
\* broadcasts are never written to the sink replaced, and are written to the
\* later sink for as long as no other connection with that id opens or
\* closes: the close of the connection replaced deletes the id and with it
\* the later sink's entry.
C19_LastWriteWins ==
    [][/\ \A c \in Conns : ReplaceStep(c) => ReplacesEntry(c)
       /\ BroadcastStep =>
             \A c \in Conns :
                 /\ IsSuperseded(c) => sinkLog'[c] = sinkLog[c]
                 /\ (Supersedes(c) /\ Active(c) /\ ~clash[c] /\ c \notin last'.throws) =>
                       sinkLog'[c] = Append(sinkLog[c], last'.notification)]_vars

\* two connections open under one id, and a broadcast made after the second
\* opened: the second holds its frame, the first holds its ack only
C19_Witness ==
    /\ superseded[2] = 1
    /\ connState[1] = "active" /\ connState[2] = "active"
    /\ IsBroadcast(last) /\ last.written = <<2>>
    /\ Len(sinkLog[1]) = 1
    /\ sinkLog[2] = <<AckOf(2), last.notification>>

\* the connections that stop being ACTIVE in this step: their close event
\* fires or a write to their sink throws
Leaving == {c \in Conns : Active(c) /\ ~Active(c)'}

\* C20: every connection that stops being ACTIVE, by a peer disconnect or by
\* a write error, has its own id unregistered in that step, and no other id
\* is; an unregister of an id that is absent (a close event after the entry
\* was removed) leaves the registry as it was.
C20_OneUnregister ==
    [][/\ Leaving # {} =>
             Keys(clients') = Keys(clients) \ {connId[c] : c \in Leaving}
       /\ \A c \in Conns :
             (CloseStep(c) /\ ~MapHas(clients, connId[c])) => clients' = clients]_vars

\* a timer callback of connection c runs in this step
TimerStep(c) == timers'[c] # timers[c] /\ connState'[c] = connState[c]

\* the welcome envelope and then the script, as one connection receives them
FullPlayback ==
    <<WelcomeNotification>> \o
    [i \in DOMAIN DEMO_NOTIFICATIONS |-> DemoNotification(i - 1)]

\* C21: a demo timer writes at most one demo envelope, to the sink of the
\* connection whose open scheduled it and to no other, makes no broadcast
\* and leaves the registry as it was, whether or not that connection is
\* registered; no broadcast carries a demo envelope; a connection that stays
\* open with no failed write holds its whole playback whatever the other
\* connections did; with demo mode off there is no timer and no demo
\* envelope.
C21_DemoPrivate ==
    [][/\ \A c \in Conns : TimerStep(c) =>
             /\ clients' = clients /\ registry' = registry
             /\ nBroadcasts' = nBroadcasts
             /\ \A d \in Conns \ {c} : sinkLog'[d] = sinkLog[d]
             /\ \/ sinkLog'[c] = sinkLog[c]
                \/ /\ Len(sinkLog'[c]) = Len(sinkLog[c]) + 1
                   /\ SubSeq(sinkLog'[c], 1, Len(sinkLog[c])) = sinkLog[c]
                   /\ IsDemoFrame(sinkLog'[c][Len(sinkLog'[c])])
       /\ BroadcastStep => ~IsDemoFrame(last'.notification)
       /\ \A c \in Conns : \A i \in DOMAIN sinkLog'[c] :
             IsDemoFrame(sinkLog'[c][i]) => seqLog'[c][i] = 0
       /\ \A c \in Conns : PlaybackDone(c)' => DemoFrames(c)' = FullPlayback
       /\ ~DEMO_MODE => \A c \in Conns : timers'[c] = {} /\ DemoFrames(c)' = <<>>]_vars

\* connection 1 holds its whole playback although connection 2, opened under
\* the same id, had a write fail and closed part-way through its own
C21_Witness ==
    /\ PlaybackDone(1) /\ DemoFrames(1) = FullPlayback
    /\ connId[2] = connId[1]
    /\ connState[2] = "closed" /\ writeFailed[2]
    /\ Len(DemoFrames(2)) = 2
    /\ MapSize(clients) = 0

\* C22: whatever the registry holds and whichever sinks throw, the call of
\* broadcastToClients returns to its producer after the whole walk: the pull
\* listener acks in its try block, POST /pubsub/push answers 200 and POST
\* /notify answers 200 via 'direct'; no producer takes its error path.
C22_ProducerIsolation ==
    [][BroadcastStep =>
          /\ last'.op \in {"pull", "push", "notify"}
          /\ last'.via \notin {"catch", "rejected"}
          /\ Len(last'.attempted) = Cardinality(last'.before)
          /\ last'.op = "pull" => last'.events = <<"broadcast", "ack">>
          /\ last'.op = "push" => last'.status = 200
          /\ last'.op = "notify" => (last'.status = 200 /\ last'.via = "direct")]_vars

\* a direct publish answered with success although the writes to both
\* registered sinks threw
C22_Witness ==
    /\ last.op = "notify" /\ last.status = 200 /\ last.via = "direct"
    /\ Cardinality(last.before) = 2
    /\ last.throws = last.before

\* C23: every sink the Map holds is the sink of a connection whose close
\* event has not fired, stored under that connection's id; once a
\* connection's close handler has run no entry refers to its sink.  The
\* register/unregister history agrees.
C23_NoStaleEntry ==
    /\ \A i \in DOMAIN clients :
          clients[i] # Empty =>
              /\ clients[i].value \in Conns
              /\ connState[clients[i].value] = "active"
              /\ connId[clients[i].value] = clients[i].key
    /\ \A c \in Conns :
          connState[c] = "closed" => c \notin MapValues(clients)
    /\ \A k \in RegisteredIds(registry) : connState[registry[k]] = "active"

\* two connections under one id: a write to the first failed, the second
\* opened without replacing an entry and received a frame, and both have
\* closed: no entry is left
C23_Witness ==
    /\ connId[1] = connId[2]
    /\ connState[1] = "closed" /\ connState[2] = "closed"
    /\ writeFailed[1] /\ ~writeFailed[2]
    /\ superseded[2] = NoConn
    /\ Len(sinkLog[2]) >= 2
    /\ MapSize(clients) = 0

====
